---- MODULE Spec2Model ----
(***************************************************************************)
(* Model of pynvim/msgpack_rpc/event_loop/uvloop.py: UVLoopEventLoop, the  *)
(* asyncio/uvloop transport driver.  One driver instance, its underlying   *)
(* loop, the transports the four connect operations establish, and the     *)
(* protocol callbacks the loop invokes on the driver while it executes     *)
(* (inside run_until_complete during connect, inside run_forever during    *)
(* run).                                                                   *)
(*                                                                         *)
(* The parent class BaseEventLoop (base.py) is not part of the sources:    *)
(* the consumer slots (_on_data, _on_error, _on_stderr) and the public     *)
(* operations that wrap _run/_stop/_close are modelled from the            *)
(* specification document.                                                 *)
(***************************************************************************)
EXTENDS Integers, Sequences, FiniteSets, TLC

\* ---------------------------------------------------------------- bounds
\* Total number of byte chunks (stdout/socket and stderr together) that the
\* peer sends during one behaviour.  Chunks are named by arrival number.
MaxChunks == 3

\* Number of callbacks handed to the thread-safe scheduling operation during
\* one behaviour.
MaxCalls == 1

\* Number of connect operations on one instance, where a second connect is
\* considered.
MaxConnects == 2

\* ------------------------------------------------------------- constants
\* uvloop.py:63  "if fd == 2:  # stderr fd number"
STDERR_FD == 2

\* Signal numbers a caller may hand to _setup_signals (SIGINT, SIGTERM).
SignalNumbers == {2, 15}

\* Ids a transport can get: a connect creates at most two (stdio).
TransportIds == 1..(2 * MaxConnects)

\* os.name values the module branches on.
OsNames == {"posix", "nt"}

\* The four connect modes: _connect_tcp, _connect_socket, _connect_stdio,
\* _connect_child.
Modes == {"tcp", "socket", "stdio", "child"}

\* exc argument of connection_lost / pipe_connection_lost: None, or an
\* exception object with its args tuple.  The loop's transports report
\* failures both with arguments (an OSError with its description) and
\* without any (BrokenPipeError() from a write pipe closed by its peer).
NoExc == [none |-> TRUE, args |-> << >>]

Excs == {NoExc,
         [none |-> FALSE, args |-> <<"Connection reset by peer">>],
         [none |-> FALSE, args |-> << >>]}

VARIABLES
    osName,           \* os.name
    pc,               \* position of the thread that owns the loop
    cstep,            \* position inside a connect operation
    mode,             \* connect mode in progress / last used
    connects,         \* number of connect operations begun
    connectResult,    \* "none" | "ok" | "failed": outcome of the last connect
    transports,       \* kinds of the transports created so far, by id
    open,             \* channels <<id, name>> that can still produce events
    closedT,          \* ids of transports on which close() was called
    _transport,       \* self._transport
    _raw_transport,   \* self._raw_transport (0 is None)
    _queued_data,     \* self._queued_data
    _on_data,         \* TRUE iff an on-data consumer is registered
    arrived,          \* primary-channel chunks in arrival order
    delivered,        \* chunks passed to the on-data consumer, in order
    viaQueue,         \* chunks that were appended to _queued_data
    stderrArrived,    \* stderr chunks in arrival order
    stderrDelivered,  \* chunks passed to the on-stderr handler, in order
    errorCalls,       \* number of invocations of the on-error handler
    stopping,         \* loop._stopping
    loopClosed,       \* loop.close() has been called
    ready,            \* callbacks handed to call_soon_threadsafe, not yet run
    _signals,         \* self._signals
    loopSignals,      \* signal numbers with a handler on the loop
    sigPhase,         \* "none" | "set" | "torn"
    sigRegistered,    \* signals the last setup registered on the loop
    sigUnregistered,  \* signals the last teardown removed from the loop
    last,             \* the most recent protocol callback / send and its effect
    handed,           \* number of callbacks handed to _threadsafe_call
    executed,         \* number of those callbacks the loop has run
    stopReq,          \* "none" | "before_run" | "since_run": a pending stop
                      \* request and when loop.stop() was called
    drainBegun        \* TRUE once run has started draining the queue

vars == << osName, pc, cstep, mode, connects, connectResult, transports, open,
           closedT, _transport, _raw_transport, _queued_data, _on_data,
           arrived, delivered, viaQueue, stderrArrived, stderrDelivered,
           errorCalls, stopping, loopClosed, ready, _signals, loopSignals,
           sigPhase, sigRegistered, sigUnregistered, last, handed, executed,
           stopReq, drainBegun >>

connVars == << cstep, mode, connects, connectResult, transports, closedT,
               _transport, _raw_transport >>
dataVars == << _queued_data, arrived, delivered, viaQueue, stderrArrived,
               stderrDelivered >>
sigVars  == << _signals, loopSignals, sigPhase, sigRegistered,
               sigUnregistered >>
callVars == << handed, executed >>

\* --------------------------------------------------------------- helpers
NoTransport == [id |-> 0, sub |-> "none"]

NoEvent == [op |-> "none", cb |-> "none", chunk |-> 0, fd |-> -1,
            exc |-> NoExc, reason |-> "", errBefore |-> FALSE,
            consumer |-> FALSE, phase |-> "none", target |-> NoTransport]

\* Number of chunks that have arrived so far on both channels.
NChunks == Len(arrived) + Len(stderrArrived)

\* Kind of the transport a connect step creates.
TransportKind(m, step) ==
    CASE m = "tcp"    -> "stream"
      [] m = "socket" -> "stream"
      [] m = "child"  -> "proc"
      [] m = "stdio"  -> IF step = "await" THEN "rpipe" ELSE "wpipe"

\* Channels of a transport on which the loop reports events.
ChannelsOf(id, kind) ==
    IF kind = "proc"
    THEN {<<id, "fd0">>, <<id, "fd1">>, <<id, "fd2">>, <<id, "exit">>,
          <<id, "conn">>}
    ELSE {<<id, "conn">>}

FdChannel(fd) == CASE fd = 0 -> "fd0" [] fd = 1 -> "fd1" [] fd = 2 -> "fd2"

\* When loop.stop() is called relative to run: before run was entered, or
\* since (while draining or in the running phase).
StopMark == IF pc \in {"draining", "running"} THEN "since_run"
                                              ELSE "before_run"

\* The loop is executing callbacks: inside run_until_complete or run_forever.
LoopExecuting == pc \in {"connecting", "running"}

\* exc.args[0] if exc else 'EOF'.  An exception object is true whatever its
\* args; args[0] of an empty args tuple raises IndexError.
ErrorReasonRaises(exc) == ~exc.none /\ exc.args = << >>

ErrorReason(exc) == IF exc.none THEN "EOF" ELSE exc.args[1]

\* ------------------------------------------------------------------ Init
\* _init: a fresh loop, an empty deque, no raw transport.  The consumer
\* slots start unset.
Init ==
    /\ osName \in OsNames
    /\ pc = "created"
    /\ cstep = "none"
    /\ mode = "none"
    /\ connects = 0
    /\ connectResult = "none"
    /\ transports = << >>
    /\ open = {}
    /\ closedT = {}
    /\ _transport = NoTransport
    /\ _raw_transport = 0
    /\ _queued_data = << >>
    /\ _on_data = FALSE
    /\ arrived = << >>
    /\ delivered = << >>
    /\ viaQueue = {}
    /\ stderrArrived = << >>
    /\ stderrDelivered = << >>
    /\ errorCalls = 0
    /\ stopping = FALSE
    /\ loopClosed = FALSE
    /\ ready = << >>
    /\ _signals = {}
    /\ loopSignals = {}
    /\ sigPhase = "none"
    /\ sigRegistered = {}
    /\ sigUnregistered = {}
    /\ last = NoEvent
    /\ handed = 0
    /\ executed = 0
    /\ stopReq = "none"
    /\ drainBegun = FALSE

\* ------------------------------------------------- connection operations
\* connection_made(transport): records the transport for send and close; a
\* subprocess transport is replaced by its pipe 0 for send.
connection_madeNoPipe(id, kind) ==
    /\ _raw_transport' = id
    /\ _transport' = [id |-> id, sub |-> "self"]

connection_made(id, kind) ==
    /\ _raw_transport' = id
    /\ _transport' = IF kind = "proc" THEN [id |-> id, sub |-> "pipe0"]
                                      ELSE [id |-> id, sub |-> "self"]

\* _connect_child, os.name != 'nt': asyncio.set_child_watcher() is called
\* without its required watcher argument and raises TypeError before the
\* process is spawned.
SetupRaises(os, m) == m = "child" /\ os # "nt"

\* The statements of a _connect_* method up to its run_until_complete: the
\* method raises at once, or the loop starts executing the coroutine.
BeginConnect(m) ==
    IF SetupRaises(osName, m)
    THEN /\ pc' = "idle"
         /\ cstep' = "none"
         /\ connectResult' = "failed"
    ELSE /\ pc' = "connecting"
         /\ cstep' = "await"
         /\ connectResult' = IF connectResult = "ok" THEN "ok" ELSE "none"

\* _connect_tcp / _connect_socket / _connect_stdio / _connect_child: the
\* coroutine is created and run_until_complete entered.  No guard in the
\* code; the first connect of an instance.
connect(m) ==
    /\ pc = "created"
    /\ BeginConnect(m)
    /\ mode' = m
    /\ connects' = connects + 1
    /\ UNCHANGED << osName, transports, open, closedT, _transport,
                    _raw_transport, _on_data, errorCalls, stopping,
                    loopClosed, ready, last >>
    /\ UNCHANGED dataVars
    /\ UNCHANGED sigVars
    /\ UNCHANGED callVars
    /\ UNCHANGED << stopReq, drainBegun >>

\* A connect operation invoked on an instance whose earlier connect has
\* succeeded: nothing in _connect_* rejects it.
reconnect(m) ==
    /\ pc = "idle"
    /\ connectResult = "ok"
    /\ connects < MaxConnects
    /\ BeginConnect(m)
    /\ mode' = m
    /\ connects' = connects + 1
    /\ UNCHANGED << osName, transports, open, closedT,
                    _transport, _raw_transport, _on_data, errorCalls,
                    stopping, loopClosed, ready, last >>
    /\ UNCHANGED dataVars
    /\ UNCHANGED sigVars
    /\ UNCHANGED callVars
    /\ UNCHANGED << stopReq, drainBegun >>

\* Inside run_until_complete the loop creates the transport and calls the
\* protocol factory's connection_made on it.
TransportEstablished ==
    /\ pc = "connecting"
    /\ cstep \in {"await", "await2"}
    /\ LET id   == Len(transports) + 1
           kind == TransportKind(mode, cstep)
       IN /\ transports' = Append(transports, kind)
          /\ open' = open \cup ChannelsOf(id, kind)
          /\ connection_made(id, kind)
    /\ cstep' = IF cstep = "await" THEN "made" ELSE "made2"
    /\ UNCHANGED << osName, pc, mode, connects, connectResult, closedT,
                    _on_data, errorCalls, stopping, loopClosed, ready, last >>
    /\ UNCHANGED dataVars
    /\ UNCHANGED sigVars
    /\ UNCHANGED callVars
    /\ UNCHANGED << stopReq, drainBegun >>

\* run_until_complete returns normally.  _connect_stdio then enters its
\* second run_until_complete (connect_write_pipe); the other modes return.
ConnectStepDone ==
    /\ pc = "connecting"
    /\ cstep \in {"made", "made2"}
    /\ IF mode = "stdio" /\ cstep = "made"
       THEN /\ cstep' = "await2"
            /\ UNCHANGED << pc, connectResult >>
       ELSE /\ cstep' = "none"
            /\ pc' = "idle"
            /\ connectResult' = "ok"
    /\ stopping' = FALSE
    /\ UNCHANGED << osName, mode, connects, transports, open, closedT,
                    _transport, _raw_transport, _on_data, errorCalls,
                    loopClosed, ready, last >>
    /\ UNCHANGED dataVars
    /\ UNCHANGED sigVars
    /\ UNCHANGED callVars
    /\ stopReq' = "none"
    /\ UNCHANGED drainBegun

\* The connect future fails (or the loop was stopped before it completed):
\* run_until_complete raises and the exception leaves _connect_*.
ConnectFailed ==
    /\ pc = "connecting"
    /\ \/ cstep \in {"await", "await2"}
       \/ stopping
    /\ pc' = "idle"
    /\ cstep' = "none"
    /\ connectResult' = "failed"
    /\ stopping' = FALSE
    /\ UNCHANGED << osName, mode, connects, transports, open, closedT,
                    _transport, _raw_transport, _on_data, errorCalls,
                    loopClosed, ready, last >>
    /\ UNCHANGED dataVars
    /\ UNCHANGED sigVars
    /\ UNCHANGED callVars
    /\ stopReq' = "none"
    /\ UNCHANGED drainBegun

\* ----------------------------------------------------- consumer bindings
\* The owning client registers its on-data handler.  It does so from the
\* thread that owns the loop while the loop is not executing, and once.
register_on_data ==
    /\ pc \in {"created", "idle"}
    /\ ~_on_data
    /\ _on_data' = TRUE
    /\ UNCHANGED << osName, pc, open, errorCalls, stopping, loopClosed,
                    ready, last >>
    /\ UNCHANGED connVars
    /\ UNCHANGED dataVars
    /\ UNCHANGED sigVars
    /\ UNCHANGED callVars
    /\ UNCHANGED << stopReq, drainBegun >>

\* The on-error relay: the handler is invoked with the reason and the loop
\* is asked to halt.
_on_error(reason) ==
    /\ errorCalls' = errorCalls + 1
    /\ stopping' = TRUE
    /\ stopReq' = StopMark

\* The exceptions a channel is reported lost with: an exception without
\* args comes from the write side only (the stdout pipe, the child's stdin).
MayReport(kind, name, exc) ==
    ErrorReasonRaises(exc) => (kind = "wpipe" \/ name = "fd0")

\* self._on_error(exc.args[0] if exc else 'EOF'): the argument is evaluated
\* first; if that raises, the handler is not called and the exception goes
\* to the loop's exception handler, which logs it and carries on.
RelayError(exc) ==
    IF ErrorReasonRaises(exc)
    THEN UNCHANGED << errorCalls, stopping, stopReq >>
    ELSE _on_error(ErrorReason(exc))

\* ---------------------------------------------------- protocol callbacks
\* Body of data_received: deliver to the consumer if one is registered and
\* return, else append to the queue.
RelayDataLeaky(d) ==
    /\ delivered' = IF _on_data THEN Append(delivered, d) ELSE delivered
    /\ _queued_data' = Append(_queued_data, d)
    /\ viaQueue' = viaQueue \cup {d}

RelayData(d) ==
    IF _on_data
    THEN /\ delivered' = Append(delivered, d)
         /\ UNCHANGED << _queued_data, viaQueue >>
    ELSE /\ _queued_data' = Append(_queued_data, d)
         /\ viaQueue' = viaQueue \cup {d}
         /\ UNCHANGED delivered

\* Body of pipe_data_received: fd 2 goes to the on-stderr handler, any other
\* fd to the consumer if registered, else to the queue.
RelayPipeDataNoStderr(fd, d) ==
    IF _on_data
    THEN /\ delivered' = Append(delivered, d)
         /\ UNCHANGED << _queued_data, viaQueue, stderrDelivered >>
    ELSE /\ _queued_data' = Append(_queued_data, d)
         /\ viaQueue' = viaQueue \cup {d}
         /\ UNCHANGED << delivered, stderrDelivered >>

RelayPipeData(fd, d) ==
    IF fd = STDERR_FD
    THEN /\ stderrDelivered' = Append(stderrDelivered, d)
         /\ UNCHANGED << delivered, _queued_data, viaQueue >>
    ELSE IF _on_data
    THEN /\ delivered' = Append(delivered, d)
         /\ UNCHANGED << _queued_data, viaQueue, stderrDelivered >>
    ELSE /\ _queued_data' = Append(_queued_data, d)
         /\ viaQueue' = viaQueue \cup {d}
         /\ UNCHANGED << delivered, stderrDelivered >>

\* The loop reads a chunk from a stream transport or the stdin pipe and
\* calls data_received.
data_received(id) ==
    /\ LoopExecuting
    /\ id \in 1..Len(transports)
    /\ transports[id] \in {"stream", "rpipe"}
    /\ <<id, "conn">> \in open
    /\ NChunks < MaxChunks
    /\ LET d == NChunks + 1
       IN /\ arrived' = Append(arrived, d)
          /\ RelayData(d)
          /\ last' = [NoEvent EXCEPT !.op = "data_received",
                         !.cb = IF _on_data THEN "on_data" ELSE "none",
                         !.chunk = d,
                         !.errBefore = errorCalls > 0, !.phase = pc,
                         !.consumer = _on_data]
    /\ UNCHANGED << osName, pc, open, _on_data, errorCalls, stopping,
                    loopClosed, ready, stderrArrived, stderrDelivered >>
    /\ UNCHANGED connVars
    /\ UNCHANGED sigVars
    /\ UNCHANGED callVars
    /\ UNCHANGED << stopReq, drainBegun >>

\* The loop reads a chunk from the child's stdout (fd 1) or stderr (fd 2)
\* and calls pipe_data_received.
pipe_data_received(id, fd) ==
    /\ LoopExecuting
    /\ id \in 1..Len(transports)
    /\ transports[id] = "proc"
    /\ fd \in {1, 2}
    /\ <<id, FdChannel(fd)>> \in open
    /\ NChunks < MaxChunks
    /\ LET d == NChunks + 1
       IN /\ IF fd = STDERR_FD
             THEN /\ stderrArrived' = Append(stderrArrived, d)
                  /\ UNCHANGED arrived
             ELSE /\ arrived' = Append(arrived, d)
                  /\ UNCHANGED stderrArrived
          /\ RelayPipeData(fd, d)
          /\ last' = [NoEvent EXCEPT !.op = "pipe_data_received",
                         !.cb = IF fd = STDERR_FD THEN "on_stderr"
                                ELSE IF _on_data THEN "on_data" ELSE "none",
                         !.chunk = d,
                         !.fd = fd,
                         !.errBefore = errorCalls > 0, !.phase = pc,
                         !.consumer = _on_data]
    /\ UNCHANGED << osName, pc, open, _on_data, errorCalls, stopping,
                    loopClosed, ready >>
    /\ UNCHANGED connVars
    /\ UNCHANGED sigVars
    /\ UNCHANGED callVars
    /\ UNCHANGED << stopReq, drainBegun >>

\* connection_lost(exc): relays to on-error.  A stream or pipe transport
\* reports it when its connection ends; a subprocess transport reports it
\* (with no exception) once the child has exited and its pipes are gone.
connection_lost(id, exc) ==
    /\ LoopExecuting
    /\ id \in 1..Len(transports)
    /\ <<id, "conn">> \in open
    /\ transports[id] = "proc" =>
          /\ exc = NoExc
          /\ \A ch \in open : ch[1] = id => ch[2] = "conn"
    /\ MayReport(transports[id], "conn", exc)
    /\ open' = open \ {<<id, "conn">>}
    /\ RelayError(exc)
    /\ last' = [NoEvent EXCEPT !.op = "connection_lost", !.exc = exc,
                   !.cb = IF ErrorReasonRaises(exc) THEN "none"
                          ELSE "on_error",
                   !.reason = IF ErrorReasonRaises(exc) THEN ""
                              ELSE ErrorReason(exc),
                   !.errBefore = errorCalls > 0, !.phase = pc, !.consumer = _on_data]
    /\ UNCHANGED << osName, pc, _on_data, loopClosed, ready >>
    /\ UNCHANGED connVars
    /\ UNCHANGED dataVars
    /\ UNCHANGED sigVars
    /\ UNCHANGED callVars
    /\ UNCHANGED drainBegun

\* pipe_connection_lost(fd, exc): relays to on-error, whatever the fd.
pipe_connection_lost(id, fd, exc) ==
    /\ LoopExecuting
    /\ id \in 1..Len(transports)
    /\ transports[id] = "proc"
    /\ fd \in {0, 1, 2}
    /\ <<id, FdChannel(fd)>> \in open
    /\ MayReport(transports[id], FdChannel(fd), exc)
    /\ open' = open \ {<<id, FdChannel(fd)>>}
    /\ RelayError(exc)
    /\ last' = [NoEvent EXCEPT !.op = "pipe_connection_lost", !.exc = exc,
                   !.cb = IF ErrorReasonRaises(exc) THEN "none"
                          ELSE "on_error",
                   !.fd = fd,
                   !.reason = IF ErrorReasonRaises(exc) THEN ""
                              ELSE ErrorReason(exc),
                   !.errBefore = errorCalls > 0, !.phase = pc, !.consumer = _on_data]
    /\ UNCHANGED << osName, pc, _on_data, loopClosed, ready >>
    /\ UNCHANGED connVars
    /\ UNCHANGED dataVars
    /\ UNCHANGED sigVars
    /\ UNCHANGED callVars
    /\ UNCHANGED drainBegun

\* process_exited(): relays 'EOF' to on-error.
process_exited(id) ==
    /\ LoopExecuting
    /\ id \in 1..Len(transports)
    /\ transports[id] = "proc"
    /\ <<id, "exit">> \in open
    /\ open' = open \ {<<id, "exit">>}
    /\ _on_error("EOF")
    /\ last' = [NoEvent EXCEPT !.op = "process_exited", !.cb = "on_error",
                   !.reason = "EOF",
                   !.errBefore = errorCalls > 0, !.phase = pc, !.consumer = _on_data]
    /\ UNCHANGED << osName, pc, _on_data, loopClosed, ready >>
    /\ UNCHANGED connVars
    /\ UNCHANGED dataVars
    /\ UNCHANGED sigVars
    /\ UNCHANGED callVars
    /\ UNCHANGED drainBegun

\* ------------------------------------------------------ run / stop / close
\* run: entered from the thread that owns the loop, after a successful
\* connect and with the consumer registered; _run starts at its while loop.
run ==
    /\ pc = "idle"
    /\ connectResult = "ok"
    /\ _on_data
    /\ pc' = "draining"
    /\ UNCHANGED << osName, open, _on_data, errorCalls, stopping,
                    loopClosed, ready, last >>
    /\ UNCHANGED connVars
    /\ UNCHANGED dataVars
    /\ UNCHANGED sigVars
    /\ UNCHANGED callVars
    /\ drainBegun' = TRUE
    /\ UNCHANGED stopReq

\* The chunk one iteration of the drain loop takes from the queue, and the
\* queue it leaves: popleft().
DrainPickNewest(q) == [chunk |-> q[Len(q)], rest |-> SubSeq(q, 1, Len(q) - 1)]

DrainPick(q) == [chunk |-> Head(q), rest |-> Tail(q)]

\* The condition of _run's drain loop: "while self._queued_data".  The
\* loop's stop flag is not consulted.
DrainContinuesWhileLong(q, stop) == Len(q) > 1

DrainContinuesUnlessStopped(q, stop) == q # << >> /\ ~stop

DrainContinues(q, stop) == q # << >>

\* _run, one iteration of "while self._queued_data": pass the oldest queued
\* chunk to the consumer.
DrainOne ==
    /\ pc = "draining"
    /\ DrainContinues(_queued_data, stopping)
    /\ LET p == DrainPick(_queued_data)
       IN /\ delivered' = Append(delivered, p.chunk)
          /\ _queued_data' = p.rest
    /\ UNCHANGED << osName, pc, open, _on_data, errorCalls, stopping,
                    loopClosed, ready, last, arrived, viaQueue,
                    stderrArrived, stderrDelivered >>
    /\ UNCHANGED connVars
    /\ UNCHANGED sigVars
    /\ UNCHANGED callVars
    /\ UNCHANGED << stopReq, drainBegun >>

\* _run, the queue is empty: the while loop ends and run_forever is entered.
EnterRunForever ==
    /\ pc = "draining"
    /\ ~DrainContinues(_queued_data, stopping)
    /\ pc' = "running"
    /\ UNCHANGED << osName, open, _on_data, errorCalls, stopping,
                    loopClosed, ready, last >>
    /\ UNCHANGED connVars
    /\ UNCHANGED dataVars
    /\ UNCHANGED sigVars
    /\ UNCHANGED callVars
    /\ UNCHANGED << stopReq, drainBegun >>

\* run_forever leaves its loop after an iteration only if the stop flag is
\* set.
MayReturnAnyway(flag) == TRUE

MayReturn(flag) == flag

\* run_forever ends its iteration with the stop flag set: it clears the
\* flag and returns, and so does _run.
RunReturns ==
    /\ pc = "running"
    /\ MayReturn(stopping)
    /\ pc' = "idle"
    /\ stopping' = FALSE
    /\ UNCHANGED << osName, open, _on_data, errorCalls, loopClosed, ready,
                    last >>
    /\ UNCHANGED connVars
    /\ UNCHANGED dataVars
    /\ UNCHANGED sigVars
    /\ UNCHANGED callVars
    /\ stopReq' = "none"
    /\ UNCHANGED drainBegun

\* Effect of self._loop.stop() on the loop's stop flag.
StopLoopForgotten(flag) == flag

StopLoop(flag) == TRUE

\* _stop: loop.stop(), called on the loop's thread (between operations, or
\* from a consumer callback while draining or running).
_stop ==
    /\ pc \in {"idle", "draining", "running"}
    /\ ~stopping
    /\ stopping' = StopLoop(stopping)
    /\ UNCHANGED << osName, pc, open, _on_data, errorCalls, loopClosed,
                    ready, last >>
    /\ UNCHANGED connVars
    /\ UNCHANGED dataVars
    /\ UNCHANGED sigVars
    /\ UNCHANGED callVars
    /\ stopReq' = StopMark
    /\ UNCHANGED drainBegun

\* _threadsafe_call(fn) from another thread, fn being the stop operation:
\* call_soon_threadsafe appends it to the loop's ready queue.
_threadsafe_call_inline ==
    /\ ~loopClosed
    /\ handed < MaxCalls
    /\ handed' = handed + 1
    /\ executed' = executed + 1
    /\ stopping' = TRUE
    /\ stopReq' = StopMark
    /\ UNCHANGED << osName, pc, open, _on_data, errorCalls, loopClosed,
                    ready, last, drainBegun >>
    /\ UNCHANGED connVars
    /\ UNCHANGED dataVars
    /\ UNCHANGED sigVars

_threadsafe_call ==
    /\ ~loopClosed
    /\ handed < MaxCalls
    /\ ready' = Append(ready, "stop")
    /\ handed' = handed + 1
    /\ UNCHANGED << executed, stopReq, drainBegun >>
    /\ UNCHANGED << osName, pc, open, _on_data, errorCalls, stopping,
                    loopClosed, last >>
    /\ UNCHANGED connVars
    /\ UNCHANGED dataVars
    /\ UNCHANGED sigVars

\* The executing loop runs the oldest callback of its ready queue, on its
\* own thread: the stop operation.
LoopRunsCallback ==
    /\ LoopExecuting
    /\ ready # << >>
    /\ ready' = Tail(ready)
    /\ stopping' = StopLoop(stopping)
    /\ last' = [NoEvent EXCEPT !.op = "threadsafe_stop",
                   !.errBefore = errorCalls > 0, !.phase = pc,
                   !.consumer = _on_data]
    /\ UNCHANGED << osName, pc, open, _on_data, errorCalls, loopClosed >>
    /\ UNCHANGED connVars
    /\ UNCHANGED dataVars
    /\ UNCHANGED sigVars
    /\ executed' = executed + 1
    /\ stopReq' = StopMark
    /\ UNCHANGED << handed, drainBegun >>

\* _close: close the raw transport if there is one, then close the loop.
\* Called from the thread that owns the loop while the loop is not running.
_close ==
    /\ pc \in {"created", "idle"}
    /\ closedT' = IF _raw_transport # 0 THEN closedT \cup {_raw_transport}
                                        ELSE closedT
    /\ loopClosed' = TRUE
    /\ pc' = "closed"
    /\ UNCHANGED << osName, cstep, mode, connects, connectResult, transports,
                    open, _transport, _raw_transport, _on_data, errorCalls,
                    stopping, ready, last >>
    /\ UNCHANGED dataVars
    /\ UNCHANGED sigVars
    /\ UNCHANGED callVars
    /\ UNCHANGED << stopReq, drainBegun >>

\* _send(data): self._transport.write(data).
_send ==
    /\ pc \in {"idle", "draining", "running"}
    /\ _transport # NoTransport
    /\ last' = [NoEvent EXCEPT !.op = "send", !.target = _transport,
                   !.errBefore = errorCalls > 0, !.phase = pc, !.consumer = _on_data]
    /\ UNCHANGED << osName, pc, open, _on_data, errorCalls, stopping,
                    loopClosed, ready >>
    /\ UNCHANGED connVars
    /\ UNCHANGED dataVars
    /\ UNCHANGED sigVars
    /\ UNCHANGED callVars
    /\ UNCHANGED << stopReq, drainBegun >>

\* ---------------------------------------------------------------- signals
\* What _setup_signals stores in self._signals and registers on the loop:
\* nothing on 'nt', list(signals) elsewhere.
SetupSignals(os, signals) == IF os = "nt" THEN {} ELSE signals

\* What _teardown_signals removes from the loop: every signum in
\* self._signals.
TeardownSignalsSkipsOne(recorded) ==
    IF recorded = {} THEN {}
    ELSE recorded \ {CHOOSE s \in recorded : \A t \in recorded : s <= t}

TeardownSignals(recorded) == recorded

\* _setup_signals(signals).  Setup and teardown alternate: the caller sets
\* the handlers up before the run phase and tears them down after it.
_setup_signals(signals) ==
    /\ pc \in {"created", "idle"}
    /\ sigPhase # "set"
    /\ _signals' = SetupSignals(osName, signals)
    /\ loopSignals' = loopSignals \cup SetupSignals(osName, signals)
    /\ sigRegistered' = SetupSignals(osName, signals)
    /\ sigPhase' = "set"
    /\ UNCHANGED << osName, pc, open, _on_data, errorCalls, stopping,
                    loopClosed, ready, last, sigUnregistered >>
    /\ UNCHANGED connVars
    /\ UNCHANGED dataVars
    /\ UNCHANGED callVars
    /\ UNCHANGED << stopReq, drainBegun >>

\* _teardown_signals().
_teardown_signals ==
    /\ pc \in {"created", "idle"}
    /\ sigPhase = "set"
    /\ loopSignals' = loopSignals \ TeardownSignals(_signals)
    /\ sigUnregistered' = TeardownSignals(_signals)
    /\ sigPhase' = "torn"
    /\ UNCHANGED << osName, pc, open, _on_data, errorCalls, stopping,
                    loopClosed, ready, last, _signals, sigRegistered >>
    /\ UNCHANGED connVars
    /\ UNCHANGED dataVars
    /\ UNCHANGED callVars
    /\ UNCHANGED << stopReq, drainBegun >>

\* ----------------------------------------------------------- specification
Next ==
    \/ \E m \in Modes : connect(m)
    \/ TransportEstablished
    \/ ConnectStepDone
    \/ ConnectFailed
    \/ register_on_data
    \/ \E id \in TransportIds : data_received(id)
    \/ \E id \in TransportIds, fd \in {1, 2} : pipe_data_received(id, fd)
    \/ \E id \in TransportIds, exc \in Excs : connection_lost(id, exc)
    \/ \E id \in TransportIds, fd \in {0, 1, 2}, exc \in Excs :
          pipe_connection_lost(id, fd, exc)
    \/ \E id \in TransportIds : process_exited(id)
    \/ run
    \/ DrainOne
    \/ EnterRunForever
    \/ RunReturns
    \/ _stop
    \/ _threadsafe_call
    \/ LoopRunsCallback
    \/ _close
    \/ _send

Spec == Init /\ [][Next]_vars

\* The signal registry over the driver's lifecycle, without chunk traffic:
\* _setup_signals and _teardown_signals read and write nothing but
\* self._signals and the loop's handler table.
NextSignals ==
    \/ \E m \in Modes : connect(m)
    \/ TransportEstablished
    \/ ConnectStepDone
    \/ ConnectFailed
    \/ register_on_data
    \/ run
    \/ EnterRunForever
    \/ RunReturns
    \/ _stop
    \/ _close
    \/ \E signals \in SUBSET SignalNumbers : _setup_signals(signals)
    \/ _teardown_signals

SpecSignals == Init /\ [][NextSignals]_vars

\* A second connect operation on a connected instance, over the driver's
\* lifecycle without chunk traffic.
NextReconnect ==
    \/ \E m \in Modes : connect(m)
    \/ \E m \in Modes : reconnect(m)
    \/ TransportEstablished
    \/ ConnectStepDone
    \/ ConnectFailed
    \/ register_on_data
    \/ run
    \/ EnterRunForever
    \/ RunReturns
    \/ _stop
    \/ _send
    \/ _close

SpecReconnect == Init /\ [][NextReconnect]_vars

\* The loop is scheduled fairly: a ready callback is run, and run_forever
\* returns once its stop flag is set.  The thread inside _run keeps
\* executing its drain loop.
FairSpec ==
    /\ Spec
    /\ WF_vars(LoopRunsCallback)
    /\ WF_vars(RunReturns)
    /\ WF_vars(DrainOne)
    /\ WF_vars(EnterRunForever)

\* ------------------------------------------------------------------ claims
Range(q) == {q[i] : i \in 1..Len(q)}

\* C1: the chunks passed to the on-data consumer, followed by the chunks
\* still queued, are exactly the primary-channel chunks in arrival order (no
\* loss, duplication or reordering), and once the loop is in its running
\* phase every chunk that has arrived has been passed to the consumer.
C1_ArrivalOrderPreserved ==
    /\ delivered \o _queued_data = arrived
    /\ pc = "running" => delivered = arrived

\* Chunks queued before the consumer was registered and a chunk relayed
\* directly afterwards have all reached the consumer.
C1_Witness ==
    /\ pc = "running"
    /\ Len(delivered) >= 3
    /\ Cardinality(viaQueue) >= 2
    /\ \E i \in 1..Len(delivered) : delivered[i] \notin viaQueue

\* C2: the on-error handler is invoked at most once per driver instance.
C2_AtMostOneError == errorCalls <= 1

\* C3: once the on-error handler has been invoked, no data_received or
\* pipe_data_received event results in an on-data or on-stderr callback.
C3_NoCallbackAfterError ==
    ~ /\ last.op \in {"data_received", "pipe_data_received"}
      /\ last.errBefore
      /\ last.cb # "none"

\* C4: a primary-channel chunk is passed to the consumer exactly once and
\* the queue left unchanged if a consumer is registered; otherwise it is
\* appended at the tail of the queue and no consumer callback is made.
C4_RelayOrQueue ==
    [][arrived' # arrived =>
         LET d == arrived'[Len(arrived')]
         IN IF _on_data
            THEN /\ delivered' = Append(delivered, d)
                 /\ _queued_data' = _queued_data
            ELSE /\ _queued_data' = Append(_queued_data, d)
                 /\ delivered' = delivered]_vars

\* A child's stdout chunk relayed directly after an earlier one was queued.
C4_Witness ==
    /\ last.op = "pipe_data_received"
    /\ last.fd = 1
    /\ last.cb = "on_data"
    /\ last.chunk \in Range(delivered)
    /\ viaQueue # {}

\* C5: every stderr chunk is passed to the on-stderr handler on arrival,
\* consumer or not, leaving the queue and the on-data deliveries unchanged;
\* no stderr chunk is ever queued or passed to on-data; each channel's
\* deliveries follow its arrival order.
C5_StderrDirect ==
    /\ [][stderrArrived' # stderrArrived =>
            /\ stderrDelivered' =
                  Append(stderrDelivered, stderrArrived'[Len(stderrArrived')])
            /\ _queued_data' = _queued_data
            /\ delivered' = delivered]_vars
    /\ [](/\ stderrDelivered = stderrArrived
          /\ Range(stderrArrived) \cap (Range(delivered) \cup Range(_queued_data)) = {}
          /\ delivered = SubSeq(arrived, 1, Len(delivered)))

\* A stderr chunk handed over while no consumer is registered and a stdout
\* chunk waits in the queue.
C5_Witness ==
    /\ last.op = "pipe_data_received"
    /\ last.fd = STDERR_FD
    /\ ~last.consumer
    /\ last.chunk \in Range(stderrDelivered)
    /\ _queued_data # << >>

\* C6: a stop handed to the thread-safe scheduling primitive while run is
\* blocking in the running phase leads to run returning, with every chunk
\* that arrived passed to the consumer exactly once, in order.
C6_CrossThreadStop ==
    (pc = "running" /\ ready # << >>)
       ~> (pc = "idle" /\ delivered = arrived /\ _queued_data = << >>)

\* run has returned after the loop ran a stop scheduled from another thread
\* during the running phase, chunks having been queued and relayed.
C6_Witness ==
    /\ pc = "idle"
    /\ last.op = "threadsafe_stop"
    /\ last.phase = "running"
    /\ viaQueue # {}
    /\ Len(delivered) >= 2
    /\ delivered = arrived

\* C7: once a connect has succeeded, the transport used by send and the
\* handle released by close stay those of the first connection.
C7_FirstConnectionKept ==
    [][connectResult = "ok" =>
          /\ _transport' = _transport
          /\ _raw_transport' = _raw_transport]_vars

\* C8: teardown unregisters exactly the signals setup registered, and none
\* of them is left on the loop; on 'nt' nothing is recorded or registered.
C8_SignalSymmetry ==
    /\ sigPhase = "torn" =>
          /\ sigUnregistered = sigRegistered
          /\ loopSignals = {}
    /\ osName = "nt" =>
          /\ _signals = {}
          /\ loopSignals = {}

\* Both signals were registered and then torn down.
C8_Witness ==
    /\ sigPhase = "torn"
    /\ sigRegistered = SignalNumbers
    /\ sigUnregistered = SignalNumbers

\* C9: after a failed connect the driver records no transport, neither for
\* send nor for close.
C9_NoPartialConnect ==
    connectResult = "failed" =>
       /\ _transport = NoTransport
       /\ _raw_transport = 0

\* C10: after close every transport that connect established is closed and
\* the loop is closed; with no connection, no transport is touched.
C10_CloseReleasesAll ==
    pc = "closed" =>
       /\ loopClosed
       /\ connectResult = "ok" => closedT = 1..Len(transports)
       /\ connectResult = "none" => closedT = {}

\* C11: for every connection_lost, pipe_connection_lost and process_exited
\* the on-error handler is passed a reason: the failure's first argument
\* when the event carries a failure, 'EOF' when it carries none, and 'EOF'
\* for process_exited.
C11_ErrorReason ==
    last.op \in {"connection_lost", "pipe_connection_lost", "process_exited"}
       => /\ last.cb = "on_error"
          /\ (last.op = "process_exited" \/ last.exc.none)
                => last.reason = "EOF"
          /\ (~last.exc.none /\ last.exc.args # << >>)
                => last.reason = last.exc.args[1]

C13_ReturnOnlyAfterStopSinceRun ==
    [][(pc = "running" /\ pc' = "idle") => stopReq = "since_run"]_vars

\* C13 (amended): run returns only if a stop request is pending, made since
\* run started or before it.
C13_ReturnOnlyAfterStop ==
    [][(pc = "running" /\ pc' = "idle") => stopReq # "none"]_vars

\* run has returned after a direct stop, no error relay and no scheduled
\* callback having been involved.
C13_Witness ==
    /\ pc = "idle"
    /\ drainBegun
    /\ errorCalls = 0
    /\ executed = 0
    /\ delivered # << >>

\* C14: the drain passes the queue to the consumer oldest first, the queue
\* is empty whenever the loop is in its running phase, and once draining has
\* begun the queue never grows again.
C14_DrainThenRun ==
    /\ [](pc = "running" => _queued_data = << >>)
    /\ [](drainBegun /\ pc # "draining" => _queued_data = << >>)
    /\ [][pc = "draining" /\ delivered' # delivered =>
            /\ delivered' = Append(delivered, Head(_queued_data))
            /\ _queued_data' = Tail(_queued_data)]_vars
    /\ [][drainBegun => Len(_queued_data') <= Len(_queued_data)]_vars

\* After a drain of queued chunks and a return of run, a further chunk was
\* relayed without passing through the queue.
C14_Witness ==
    /\ drainBegun
    /\ pc = "idle"
    /\ Cardinality(viaQueue) >= 1
    /\ Len(arrived) > Cardinality(viaQueue)
    /\ delivered = arrived

\* C15: every connection_lost, pipe_connection_lost and process_exited in
\* the running phase fires the on-error relay and sets the loop's stop flag,
\* and run then returns.
C15_ErrorStopsRun ==
    /\ [][(pc = "running" /\ open' # open) =>
            /\ errorCalls' = errorCalls + 1
            /\ stopping']_vars
    /\ (pc = "running" /\ stopping) ~> (pc = "idle")

\* C16: no event is delivered through the on-error relay while a connect
\* operation has not returned.
C16_NoRelayDuringConnect ==
    ~ /\ last.cb = "on_error"
      /\ last.phase = "connecting"

\* C17: after a successful connect send writes to the write side: pipe 0 of
\* the process transport that close targets (child), the stdout binding
\* (stdio), the single transport (tcp, socket); and send changes neither the
\* queue, the consumer binding nor the lifecycle state.
C17_SendTarget ==
    /\ [](last.op = "send" /\ connectResult = "ok" =>
            /\ last.target # NoTransport
            /\ mode = "child" =>
                  /\ last.target = [id |-> _raw_transport, sub |-> "pipe0"]
                  /\ transports[_raw_transport] = "proc"
            /\ mode = "stdio" =>
                  /\ transports[last.target.id] = "wpipe"
                  /\ last.target.sub = "self"
            /\ mode \in {"tcp", "socket"} =>
                  /\ transports[last.target.id] = "stream"
                  /\ last.target.sub = "self")
    /\ [][last' # last /\ last'.op = "send" =>
            UNCHANGED << _queued_data, delivered, _on_data, pc, stopping,
                         connectResult, _transport, _raw_transport, open,
                         closedT, loopClosed >>]_vars

\* A chunk was sent to the child's stdin pipe.
C17_Witness ==
    /\ last.op = "send"
    /\ connectResult = "ok"
    /\ mode = "child"
    /\ last.target.sub = "pipe0"

\* C18: a stop requested before the running phase is entered does not end
\* the drain: the drain goes on to the running phase only, with the queue
\* empty and every chunk passed on in order, and run then returns.
C18_StopDoesNotSkipDrain ==
    /\ [][(pc = "draining" /\ stopping /\ pc' # "draining") =>
            /\ pc' = "running"
            /\ _queued_data' = << >>
            /\ delivered' = arrived']_vars
    /\ (pc = "draining" /\ stopping)
          ~> (pc = "idle" /\ _queued_data = << >> /\ delivered = arrived)

\* A stop was requested before run; the queued chunks have all been drained
\* and the loop is in its running phase, about to return.
C18_Witness ==
    /\ pc = "running"
    /\ stopReq = "before_run"
    /\ Cardinality(viaQueue) >= 2
    /\ _queued_data = << >>
    /\ delivered = arrived

====
